---- MODULE Spec2Model ----
(***************************************************************************)
(* The startup orchestrator of cmd/dendrite-monolith-server (main.go).     *)
(* main is a straight-line build sequence (MainOrder) that creates shared  *)
(* handles, calls every component registrar, assembles the default mux and *)
(* launches one or two listener goroutines before blocking in select {}.   *)
(***************************************************************************)
EXTENDS Integers, Sequences, FiniteSets, TLC

\* The largest number of requests the listeners serve in a run.
MaxServed == 2

VARIABLES
    pc,              \* index in MainOrder of main's next statement
    certFile,        \* *certFile  ("" until the flags are parsed)
    keyFile,         \* *keyFile
    metricsEnabled,  \* cfg.Metrics.Enabled
    handles,         \* local variables of main that hold a value
    calls,           \* the build steps main has invoked, in order
    err,             \* the err of line 75: "nil" or "error"
    failedStores,    \* the stores whose connection failed
    apiMux,          \* base.APIMux: the components that registered routes
    defaultMux,      \* http.DefaultServeMux: the registrations, in order
    deferred,        \* main's stack of deferred calls
    baseClosed,      \* how many times base.Close has run
    listener,        \* position of each listener goroutine
    launches,        \* how many times each listener goroutine was started
    served,          \* the requests served so far
    log,             \* the logrus entries written so far
    procState,       \* "running", "panicking" or "exited"
    exit             \* how the process ended: "none", "panic", "fatal", "return"

cfgVars  == <<certFile, keyFile, metricsEnabled>>
muxVars  == <<apiMux, defaultMux>>
goVars   == <<listener, launches, served>>
mainVars == <<pc, handles, calls, err, apiMux, defaultMux, deferred, launches>>
vars == <<pc, certFile, keyFile, metricsEnabled, handles, calls, err,
          failedStores, apiMux, defaultMux, deferred, baseClosed, listener,
          launches, served, log, procState, exit>>

\* The two listeners, named after the flag that holds their address.
Listeners == {"http", "https"}

\* Values a path flag can take: the default (line 45, 46) or a file name.
FlagValues == {"", "file.pem"}

\* The nine component registrars (lines 60-80).
Registrars == {"SetupRoomServerComponent", "SetupEDUServerComponent",
               "SetupAppServiceAPIComponent", "SetupFederationSenderComponent",
               "SetupClientAPIComponent", "SetupFederationAPIComponent",
               "SetupMediaAPIComponent", "SetupPublicRoomsAPIComponent",
               "SetupSyncAPIComponent"}

\* The stores of the shared infrastructure (lines 54-56).
BaseStores == {"accountDB", "deviceDB", "keyDB"}

\* MainOrder with the federation sender built before the room server whose
\* query API it takes.
MainOrder_SenderFirst ==
    << "ParseMonolithFlags", "NewBaseDendrite", "DeferBaseClose",
       "CreateAccountsDB", "CreateDeviceDB", "CreateKeyDB",
       "CreateFederationClient", "CreateKeyRing",
       "SetupFederationSenderComponent", "SetupRoomServerComponent",
       "SetupEDUServerComponent", "SetupAppServiceAPIComponent",
       "SetupClientAPIComponent", "NewEDUServerProducer",
       "SetupFederationAPIComponent", "SetupMediaAPIComponent",
       "NewPublicRoomsServerDatabase", "IfErrPanicf",
       "SetupPublicRoomsAPIComponent", "SetupSyncAPIComponent",
       "WrapHandlerInCORS", "HandleMetrics", "HandleRoot", "GoListenAndServe",
       "GoListenAndServeTLS", "Select" >>

\* MainOrder with the plaintext listener launched before the root handler is
\* installed.
MainOrder_ListenEarly ==
    << "ParseMonolithFlags", "NewBaseDendrite", "DeferBaseClose",
       "CreateAccountsDB", "CreateDeviceDB", "CreateKeyDB",
       "CreateFederationClient", "CreateKeyRing", "SetupRoomServerComponent",
       "SetupEDUServerComponent", "SetupAppServiceAPIComponent",
       "SetupFederationSenderComponent", "SetupClientAPIComponent",
       "NewEDUServerProducer", "SetupFederationAPIComponent",
       "SetupMediaAPIComponent", "NewPublicRoomsServerDatabase",
       "IfErrPanicf", "SetupPublicRoomsAPIComponent", "SetupSyncAPIComponent",
       "WrapHandlerInCORS", "HandleMetrics", "GoListenAndServe", "HandleRoot",
       "GoListenAndServeTLS", "Select" >>

\* MainOrder with the TLS listener launched before the plaintext listener.
MainOrder_TLSFirst ==
    << "ParseMonolithFlags", "NewBaseDendrite", "DeferBaseClose",
       "CreateAccountsDB", "CreateDeviceDB", "CreateKeyDB",
       "CreateFederationClient", "CreateKeyRing", "SetupRoomServerComponent",
       "SetupEDUServerComponent", "SetupAppServiceAPIComponent",
       "SetupFederationSenderComponent", "SetupClientAPIComponent",
       "NewEDUServerProducer", "SetupFederationAPIComponent",
       "SetupMediaAPIComponent", "NewPublicRoomsServerDatabase",
       "IfErrPanicf", "SetupPublicRoomsAPIComponent", "SetupSyncAPIComponent",
       "WrapHandlerInCORS", "HandleMetrics", "HandleRoot",
       "GoListenAndServeTLS", "GoListenAndServe", "Select" >>

\* MainOrder without the final select {}: main returns.
MainOrder_NoSelect ==
    << "ParseMonolithFlags", "NewBaseDendrite", "DeferBaseClose",
       "CreateAccountsDB", "CreateDeviceDB", "CreateKeyDB",
       "CreateFederationClient", "CreateKeyRing", "SetupRoomServerComponent",
       "SetupEDUServerComponent", "SetupAppServiceAPIComponent",
       "SetupFederationSenderComponent", "SetupClientAPIComponent",
       "NewEDUServerProducer", "SetupFederationAPIComponent",
       "SetupMediaAPIComponent", "NewPublicRoomsServerDatabase",
       "IfErrPanicf", "SetupPublicRoomsAPIComponent", "SetupSyncAPIComponent",
       "WrapHandlerInCORS", "HandleMetrics", "HandleRoot", "GoListenAndServe",
       "GoListenAndServeTLS" >>

\* The statements of main in source order (lines 50-115).
MainOrder ==
    << "ParseMonolithFlags",             \* 50
       "NewBaseDendrite",                \* 51
       "DeferBaseClose",                 \* 52
       "CreateAccountsDB",               \* 54
       "CreateDeviceDB",                 \* 55
       "CreateKeyDB",                    \* 56
       "CreateFederationClient",         \* 57
       "CreateKeyRing",                  \* 58
       "SetupRoomServerComponent",       \* 60
       "SetupEDUServerComponent",        \* 61
       "SetupAppServiceAPIComponent",    \* 62-64
       "SetupFederationSenderComponent", \* 65
       "SetupClientAPIComponent",        \* 67-71
       "NewEDUServerProducer",           \* 72
       "SetupFederationAPIComponent",    \* 73
       "SetupMediaAPIComponent",         \* 74
       "NewPublicRoomsServerDatabase",   \* 75
       "IfErrPanicf",                    \* 76-78
       "SetupPublicRoomsAPIComponent",   \* 79
       "SetupSyncAPIComponent",          \* 80
       "WrapHandlerInCORS",              \* 82
       "HandleMetrics",                  \* 86-88
       "HandleRoot",                     \* 89
       "GoListenAndServe",               \* 92-100
       "GoListenAndServeTLS",            \* 102-112
       "Select" >>                       \* 115

\* The local variables (and cfg, base) each statement reads as arguments.
Args(step) ==
    CASE step = "NewBaseDendrite" -> {"cfg"}
      [] step = "DeferBaseClose" -> {"base"}
      [] step = "CreateAccountsDB" -> {"base"}
      [] step = "CreateDeviceDB" -> {"base"}
      [] step = "CreateKeyDB" -> {"base"}
      [] step = "CreateFederationClient" -> {"base"}
      [] step = "CreateKeyRing" -> {"federation", "keyDB", "cfg"}
      [] step = "SetupRoomServerComponent" -> {"base"}
      [] step = "SetupEDUServerComponent" -> {"base"}
      [] step = "SetupAppServiceAPIComponent" ->
            {"base", "accountDB", "deviceDB", "federation", "alias", "query"}
      [] step = "SetupFederationSenderComponent" ->
            {"base", "federation", "query"}
      [] step = "SetupClientAPIComponent" ->
            {"base", "deviceDB", "accountDB", "federation", "keyRing", "alias",
             "input", "query", "eduInputAPI", "asQuery", "fedSenderAPI"}
      [] step = "NewEDUServerProducer" -> {"eduInputAPI"}
      [] step = "SetupFederationAPIComponent" ->
            {"base", "accountDB", "deviceDB", "federation", "keyRing", "alias",
             "input", "query", "asQuery", "fedSenderAPI", "eduProducer"}
      [] step = "SetupMediaAPIComponent" -> {"base", "deviceDB"}
      [] step = "NewPublicRoomsServerDatabase" -> {"base"}
      [] step = "SetupPublicRoomsAPIComponent" ->
            {"base", "deviceDB", "publicRoomsDB", "query", "federation"}
      [] step = "SetupSyncAPIComponent" ->
            {"base", "deviceDB", "accountDB", "query", "federation", "cfg"}
      [] step = "WrapHandlerInCORS" -> {"base"}
      [] step = "HandleMetrics" -> {"cfg"}
      [] step = "HandleRoot" -> {"httpHandler"}
      [] OTHER -> {}

\* The local variables each statement assigns.
Produces(step) ==
    CASE step = "ParseMonolithFlags" -> {"cfg"}
      [] step = "NewBaseDendrite" -> {"base"}
      [] step = "CreateAccountsDB" -> {"accountDB"}
      [] step = "CreateDeviceDB" -> {"deviceDB"}
      [] step = "CreateKeyDB" -> {"keyDB"}
      [] step = "CreateFederationClient" -> {"federation"}
      [] step = "CreateKeyRing" -> {"keyRing"}
      [] step = "SetupRoomServerComponent" -> {"alias", "input", "query"}
      [] step = "SetupEDUServerComponent" -> {"eduInputAPI"}
      [] step = "SetupAppServiceAPIComponent" -> {"asQuery"}
      [] step = "SetupFederationSenderComponent" -> {"fedSenderAPI"}
      [] step = "NewEDUServerProducer" -> {"eduProducer"}
      [] step = "NewPublicRoomsServerDatabase" -> {"publicRoomsDB"}
      [] step = "WrapHandlerInCORS" -> {"httpHandler"}
      [] OTHER -> {}

\* FreshArgs with one transactions.New() result kept in a variable and
\* passed to both the application service and the client API.
FreshArgs_SharedTxn(step) ==
    CASE step = "SetupEDUServerComponent" ->
            {[kind |-> "cache", site |-> "line 61"]}
      [] step = "SetupAppServiceAPIComponent" ->
            {[kind |-> "transactions", site |-> "line 63"]}
      [] step = "SetupClientAPIComponent" ->
            {[kind |-> "transactions", site |-> "line 63"]}
      [] OTHER -> {}

\* The arguments a statement creates in place: cache.New() on line 61 and
\* transactions.New() on lines 63 and 70. Each call expression is evaluated
\* when its statement runs and yields the instance of that site.
FreshArgs(step) ==
    CASE step = "SetupEDUServerComponent" ->
            {[kind |-> "cache", site |-> "line 61"]}
      [] step = "SetupAppServiceAPIComponent" ->
            {[kind |-> "transactions", site |-> "line 63"]}
      [] step = "SetupClientAPIComponent" ->
            {[kind |-> "transactions", site |-> "line 70"]}
      [] OTHER -> {}

\* What is recorded of a call: the statement, the argument handles that are
\* still unset when it runs, and the instances created for it.
CallRecord(step) ==
    [step |-> step, unset |-> Args(step) \ handles, fresh |-> FreshArgs(step)]

\* main is about to execute statement `step`.
At(step) ==
    /\ procState = "running"
    /\ pc <= Len(MainOrder)
    /\ MainOrder[pc] = step

\* main has executed statement `step` (or left it behind).
Past(step) == \E i \in 1..Len(MainOrder) : MainOrder[i] = step /\ pc > i

\* A call statement: the arguments are read, the results are assigned and
\* control moves to the next statement.
Call(step) ==
    /\ At(step)
    /\ calls' = Append(calls, CallRecord(step))
    /\ handles' = handles \cup Produces(step)
    /\ pc' = pc + 1

\* A registrar adds its routes to base.APIMux as a side effect.
RegisterRoutes(component) == apiMux' = Append(apiMux, component)

Init ==
    /\ pc = 1
    /\ certFile = ""
    /\ keyFile = ""
    /\ metricsEnabled = FALSE
    /\ handles = {}
    /\ calls = << >>
    /\ err = "nil"
    /\ failedStores = {}
    /\ apiMux = << >>
    /\ defaultMux = << >>
    /\ deferred = << >>
    /\ baseClosed = 0
    /\ listener = [l \in Listeners |-> "none"]
    /\ launches = [l \in Listeners |-> 0]
    /\ served = << >>
    /\ log = << >>
    /\ procState = "running"
    /\ exit = "none"

\* Line 50: the flags and the configuration file are parsed.
ParseMonolithFlags ==
    /\ Call("ParseMonolithFlags")
    /\ \E c \in FlagValues, k \in FlagValues, m \in BOOLEAN :
          /\ certFile' = c
          /\ keyFile' = k
          /\ metricsEnabled' = m
    /\ UNCHANGED <<err, failedStores, muxVars, deferred, baseClosed, goVars,
                   log, procState, exit>>

\* Line 51.
NewBaseDendrite ==
    /\ Call("NewBaseDendrite")
    /\ UNCHANGED <<cfgVars, err, failedStores, muxVars, deferred, baseClosed,
                   goVars, log, procState, exit>>

\* Line 52: defer base.Close().
DeferBaseClose ==
    /\ Call("DeferBaseClose")
    /\ deferred' = <<"base.Close">> \o deferred
    /\ UNCHANGED <<cfgVars, err, failedStores, muxVars, baseClosed, goVars,
                   log, procState, exit>>

\* BaseStoreFailure that only logs: main goes on without the store.
BaseStoreFailure_Continue(step, store) ==
    /\ At(step)
    /\ calls' = Append(calls, CallRecord(step))
    /\ failedStores' = failedStores \cup {store}
    /\ log' = Append(log, <<"error", store>>)
    /\ pc' = pc + 1
    /\ UNCHANGED <<handles, cfgVars, err, muxVars, deferred, baseClosed,
                   goVars, procState, exit>>

\* A store of the shared infrastructure cannot be reached: the failure is
\* reported and the process terminates immediately.
BaseStoreFailure(step, store) ==
    /\ At(step)
    /\ calls' = Append(calls, CallRecord(step))
    /\ failedStores' = failedStores \cup {store}
    /\ log' = Append(log, <<"fatal", store>>)
    /\ procState' = "exited"
    /\ exit' = "fatal"
    /\ UNCHANGED <<pc, handles, cfgVars, err, muxVars, deferred, baseClosed,
                   goVars>>

\* A store of the shared infrastructure is created, or fails to connect.
CreateStore(step, store) ==
    \/ /\ Call(step)
       /\ UNCHANGED <<cfgVars, err, failedStores, muxVars, deferred,
                      baseClosed, goVars, log, procState, exit>>
    \/ BaseStoreFailure(step, store)

\* Line 54.
CreateAccountsDB == CreateStore("CreateAccountsDB", "accountDB")

\* Line 55.
CreateDeviceDB == CreateStore("CreateDeviceDB", "deviceDB")

\* Line 56.
CreateKeyDB == CreateStore("CreateKeyDB", "keyDB")

\* A constructor that registers no route (lines 57, 58, 72, 82).
Construct(step) ==
    /\ Call(step)
    /\ UNCHANGED <<cfgVars, err, failedStores, muxVars, deferred, baseClosed,
                   goVars, log, procState, exit>>

\* Line 57.
CreateFederationClient == Construct("CreateFederationClient")

\* Line 58.
CreateKeyRing == Construct("CreateKeyRing")

\* A component registrar: builds the component and registers its routes.
Setup(step) ==
    /\ Call(step)
    /\ RegisterRoutes(step)
    /\ UNCHANGED <<cfgVars, err, failedStores, defaultMux, deferred,
                   baseClosed, goVars, log, procState, exit>>

\* Line 60.
SetupRoomServerComponent == Setup("SetupRoomServerComponent")

\* Line 61.
SetupEDUServerComponent == Setup("SetupEDUServerComponent")

\* Lines 62-64.
SetupAppServiceAPIComponent == Setup("SetupAppServiceAPIComponent")

\* Line 65.
SetupFederationSenderComponent == Setup("SetupFederationSenderComponent")

\* Lines 67-71.
SetupClientAPIComponent == Setup("SetupClientAPIComponent")

\* Line 72.
NewEDUServerProducer == Construct("NewEDUServerProducer")

\* Line 73.
SetupFederationAPIComponent == Setup("SetupFederationAPIComponent")

\* Line 74.
SetupMediaAPIComponent == Setup("SetupMediaAPIComponent")

\* Line 75: publicRoomsDB, err := storage.NewPublicRoomsServerDatabase(...).
\* On an error the returned database is the zero value.
NewPublicRoomsServerDatabase ==
    /\ At("NewPublicRoomsServerDatabase")
    /\ calls' = Append(calls, CallRecord("NewPublicRoomsServerDatabase"))
    /\ pc' = pc + 1
    /\ \/ /\ err' = "nil"
          /\ handles' = handles \cup Produces("NewPublicRoomsServerDatabase")
          /\ UNCHANGED failedStores
       \/ /\ err' = "error"
          /\ failedStores' = failedStores \cup {"publicRoomsDB"}
          /\ UNCHANGED handles
    /\ UNCHANGED <<cfgVars, muxVars, deferred, baseClosed, goVars, log,
                   procState, exit>>

\* IfErrPanicf that drops the error and goes on.
IfErrPanicf_Ignore ==
    /\ At("IfErrPanicf")
    /\ pc' = pc + 1
    /\ UNCHANGED <<cfgVars, handles, calls, err, failedStores, muxVars,
                   deferred, baseClosed, goVars, log, procState, exit>>

\* Lines 76-78: if err != nil { logrus.WithError(err).Panicf(...) }.
IfErrPanicf ==
    /\ At("IfErrPanicf")
    /\ IF err # "nil"
          THEN /\ log' = Append(log, <<"panic", "publicRoomsDB">>)
               /\ procState' = "panicking"
               /\ UNCHANGED pc
          ELSE /\ pc' = pc + 1
               /\ UNCHANGED <<log, procState>>
    /\ UNCHANGED <<cfgVars, handles, calls, err, failedStores, muxVars,
                   deferred, baseClosed, goVars, exit>>

\* Line 79.
SetupPublicRoomsAPIComponent == Setup("SetupPublicRoomsAPIComponent")

\* Line 80.
SetupSyncAPIComponent == Setup("SetupSyncAPIComponent")

\* Line 82: httpHandler := common.WrapHandlerInCORS(base.APIMux).
WrapHandlerInCORS == Construct("WrapHandlerInCORS")

\* A request path and a mux pattern are sequences of path segments: "/" is
\* << >> and "/metrics" is <<"metrics">>.
MetricsPath == <<"metrics">>

\* The request paths a client asks for.
RequestPaths == {<<"metrics">>, <<"metrics", "x">>, <<"_matrix">>}

\* Line 87: the pattern "/metrics" names one path.
MetricsPattern == [segs |-> MetricsPath, subtree |-> FALSE]

\* Line 89: the pattern "/" names the subtree of every path.
RootPattern == [segs |-> << >>, subtree |-> TRUE]

\* Line 87: common.WrapHandlerInBasicAuth(promhttp.Handler(), ...).
MetricsHandler == [wrap |-> "BasicAuth", inner |-> "promhttp"]

\* Line 82: common.WrapHandlerInCORS(base.APIMux).
HttpHandler == [wrap |-> "CORS", inner |-> "APIMux"]

\* What the mux answers with when no pattern matches.
NotFoundHandler == [wrap |-> "none", inner |-> "NotFound"]

\* http.Handle(pattern, handler) on the default mux.
Handle(mux, pattern, handler) ==
    Append(mux, [pattern |-> pattern, handler |-> handler])

\* A pattern ending in "/" matches every path below it; any other pattern
\* matches only itself.
Matches(pattern, path) ==
    IF pattern.subtree
       THEN /\ Len(pattern.segs) <= Len(path)
            /\ SubSeq(path, 1, Len(pattern.segs)) = pattern.segs
       ELSE path = pattern.segs

\* The handler the default mux chooses for a path: the longest pattern that
\* matches.
Lookup(mux, path) ==
    LET cands == {i \in DOMAIN mux : Matches(mux[i].pattern, path)}
    IN  IF cands = {}
           THEN NotFoundHandler
           ELSE mux[CHOOSE i \in cands :
                       \A j \in cands :
                          Len(mux[i].pattern.segs) >= Len(mux[j].pattern.segs)
                   ].handler

\* HandleMetrics that registers the metrics handler under "/", the pattern
\* line 89 registers too.
HandleMetrics_RootPattern ==
    /\ Call("HandleMetrics")
    /\ defaultMux' = IF metricsEnabled
                        THEN Handle(defaultMux, RootPattern, MetricsHandler)
                        ELSE defaultMux
    /\ UNCHANGED <<cfgVars, err, failedStores, apiMux, deferred, baseClosed,
                   goVars, log, procState, exit>>

\* HandleMetrics that puts /metrics behind the CORS wrapper, whatever the
\* configuration says.
HandleMetrics_Always ==
    /\ Call("HandleMetrics")
    /\ defaultMux' = Handle(defaultMux, MetricsPattern,
                            [wrap |-> "CORS", inner |-> "promhttp"])
    /\ UNCHANGED <<cfgVars, err, failedStores, apiMux, deferred, baseClosed,
                   goVars, log, procState, exit>>

\* Lines 86-88: if cfg.Metrics.Enabled { http.Handle("/metrics", ...) }.
HandleMetrics ==
    /\ Call("HandleMetrics")
    /\ defaultMux' = IF metricsEnabled
                        THEN Handle(defaultMux, MetricsPattern, MetricsHandler)
                        ELSE defaultMux
    /\ UNCHANGED <<cfgVars, err, failedStores, apiMux, deferred, baseClosed,
                   goVars, log, procState, exit>>

\* Line 89: http.Handle("/", httpHandler).
HandleRoot ==
    /\ Call("HandleRoot")
    /\ defaultMux' = Handle(defaultMux, RootPattern, HttpHandler)
    /\ UNCHANGED <<cfgVars, err, failedStores, apiMux, deferred, baseClosed,
                   goVars, log, procState, exit>>

\* A go statement: the listener goroutine exists and has not run yet.
Go(l) ==
    /\ listener' = [listener EXCEPT ![l] = "started"]
    /\ launches' = [launches EXCEPT ![l] = @ + 1]

\* Lines 92-100: go func() { ... serv.ListenAndServe() ... }().
GoListenAndServe ==
    /\ Call("GoListenAndServe")
    /\ Go("http")
    /\ UNCHANGED <<cfgVars, err, failedStores, muxVars, deferred, baseClosed,
                   served, log, procState, exit>>

\* The condition of line 102 with || for &&.
CertAndKeyProvided_Or == certFile # "" \/ keyFile # ""

\* Line 102: *certFile != "" && *keyFile != "".
CertAndKeyProvided == certFile # "" /\ keyFile # ""

\* GoListenAndServeTLS that treats a lone certificate or key as a fatal
\* configuration error.
GoListenAndServeTLS_Strict ==
    /\ At("GoListenAndServeTLS")
    /\ calls' = Append(calls, CallRecord("GoListenAndServeTLS"))
    /\ IF CertAndKeyProvided
          THEN Go("https") /\ pc' = pc + 1 /\ UNCHANGED <<log, procState, exit>>
          ELSE IF certFile # "" \/ keyFile # ""
                  THEN /\ log' = Append(log, <<"fatal", "tls-config">>)
                       /\ procState' = "exited"
                       /\ exit' = "fatal"
                       /\ UNCHANGED <<pc, listener, launches>>
                  ELSE /\ pc' = pc + 1
                       /\ UNCHANGED <<listener, launches, log, procState, exit>>
    /\ UNCHANGED <<cfgVars, handles, err, failedStores, muxVars, deferred,
                   baseClosed, served>>

\* Lines 102-112: if ... { go func() { ... serv.ListenAndServeTLS() ... }() }.
GoListenAndServeTLS ==
    /\ Call("GoListenAndServeTLS")
    /\ IF CertAndKeyProvided
          THEN Go("https")
          ELSE UNCHANGED <<listener, launches>>
    /\ UNCHANGED <<cfgVars, err, failedStores, muxVars, deferred, baseClosed,
                   served, log, procState, exit>>

\* main has returned from its last statement.
MainReturned == procState = "running" /\ pc > Len(MainOrder)

\* main panics or returns: its deferred calls run, last deferred first
\* (line 52: base.Close).
RunDeferred ==
    /\ procState = "panicking" \/ MainReturned
    /\ deferred # << >>
    /\ deferred' = Tail(deferred)
    /\ baseClosed' = IF Head(deferred) = "base.Close"
                        THEN baseClosed + 1
                        ELSE baseClosed
    /\ UNCHANGED <<pc, cfgVars, handles, calls, err, failedStores, muxVars,
                   goVars, log, procState, exit>>

\* main has unwound: the process ends, whatever the goroutines are doing.
MainEnd ==
    /\ procState = "panicking" \/ MainReturned
    /\ deferred = << >>
    /\ exit' = IF procState = "panicking" THEN "panic" ELSE "return"
    /\ procState' = "exited"
    /\ UNCHANGED <<pc, cfgVars, handles, calls, err, failedStores, muxVars,
                   deferred, baseClosed, goVars, log>>

\* Lines 93-98 and 104-109: the goroutine builds its http.Server and logs
\* "Listening on <addr>", then calls ListenAndServe(TLS).
ListenInfo(l) ==
    /\ procState # "exited"
    /\ listener[l] = "started"
    /\ listener' = [listener EXCEPT ![l] = "binding"]
    /\ log' = Append(log, <<"info", l>>)
    /\ UNCHANGED <<pc, cfgVars, handles, calls, err, failedStores, muxVars,
                   deferred, baseClosed, launches, served, procState, exit>>

\* Lines 99 and 110: ListenAndServe(TLS) has bound the address and accepts
\* connections.
Bind(l) ==
    /\ procState # "exited"
    /\ listener[l] = "binding"
    /\ listener' = [listener EXCEPT ![l] = "serving"]
    /\ UNCHANGED <<pc, cfgVars, handles, calls, err, failedStores, muxVars,
                   deferred, baseClosed, launches, served, log, procState,
                   exit>>

\* Lines 99 and 110: ListenAndServe(TLS) returns its error, because the
\* address (or the certificate) could not be used or the accept loop failed.
ListenReturn(l) ==
    /\ procState # "exited"
    /\ listener[l] \in {"binding", "serving"}
    /\ listener' = [listener EXCEPT ![l] = "returned"]
    /\ UNCHANGED <<pc, cfgVars, handles, calls, err, failedStores, muxVars,
                   deferred, baseClosed, launches, served, log, procState,
                   exit>>

\* FatalLog that writes nothing (os.Exit in place of logrus.Fatal).
FatalLog_Silent(l) ==
    /\ procState # "exited"
    /\ listener[l] = "returned"
    /\ listener' = [listener EXCEPT ![l] = "fatal"]
    /\ UNCHANGED <<pc, cfgVars, handles, calls, err, failedStores, muxVars,
                   deferred, baseClosed, launches, served, log, procState,
                   exit>>

\* Lines 99 and 110: logrus.Fatal writes the entry ...
FatalLog(l) ==
    /\ procState # "exited"
    /\ listener[l] = "returned"
    /\ listener' = [listener EXCEPT ![l] = "fatal"]
    /\ log' = Append(log, <<"fatal", l>>)
    /\ UNCHANGED <<pc, cfgVars, handles, calls, err, failedStores, muxVars,
                   deferred, baseClosed, launches, served, procState, exit>>

\* FatalExit that only ends the goroutine (logrus.Error for logrus.Fatal).
FatalExit_Return(l) ==
    /\ procState # "exited"
    /\ listener[l] = "fatal"
    /\ listener' = [listener EXCEPT ![l] = "ended"]
    /\ UNCHANGED <<pc, cfgVars, handles, calls, err, failedStores, muxVars,
                   deferred, baseClosed, launches, served, log, procState,
                   exit>>

\* ... and then exits the process.
FatalExit(l) ==
    /\ procState # "exited"
    /\ listener[l] = "fatal"
    /\ procState' = "exited"
    /\ exit' = "fatal"
    /\ UNCHANGED <<pc, cfgVars, handles, calls, err, failedStores, muxVars,
                   deferred, baseClosed, goVars, log>>

\* The other listener.
Other(l) == IF l = "http" THEN "https" ELSE "http"

\* A serving listener answers a request: its http.Server has no Handler, so
\* the default mux chooses the handler.
ServeHTTP(l, path) ==
    /\ procState # "exited"
    /\ listener[l] = "serving"
    /\ Len(served) < MaxServed
    /\ served' = Append(served, [via |-> l, path |-> path,
                                 handler |-> Lookup(defaultMux, path),
                                 routes |-> apiMux,
                                 peer |-> listener[Other(l)]])
    /\ UNCHANGED <<pc, cfgVars, handles, calls, err, failedStores, muxVars,
                   deferred, baseClosed, listener, launches, log, procState,
                   exit>>

\* The steps of the main goroutine.
Main ==
    \/ ParseMonolithFlags
    \/ NewBaseDendrite
    \/ DeferBaseClose
    \/ CreateAccountsDB
    \/ CreateDeviceDB
    \/ CreateKeyDB
    \/ CreateFederationClient
    \/ CreateKeyRing
    \/ SetupRoomServerComponent
    \/ SetupEDUServerComponent
    \/ SetupAppServiceAPIComponent
    \/ SetupFederationSenderComponent
    \/ SetupClientAPIComponent
    \/ NewEDUServerProducer
    \/ SetupFederationAPIComponent
    \/ SetupMediaAPIComponent
    \/ NewPublicRoomsServerDatabase
    \/ IfErrPanicf
    \/ SetupPublicRoomsAPIComponent
    \/ SetupSyncAPIComponent
    \/ WrapHandlerInCORS
    \/ HandleMetrics
    \/ HandleRoot
    \/ GoListenAndServe
    \/ GoListenAndServeTLS
    \/ RunDeferred
    \/ MainEnd

Next ==
    \/ Main
    \/ \E l \in Listeners : ListenInfo(l)
    \/ \E l \in Listeners : Bind(l)
    \/ \E l \in Listeners : ListenReturn(l)
    \/ \E l \in Listeners : FatalLog(l)
    \/ \E l \in Listeners : FatalExit(l)
    \/ \E l \in Listeners, path \in RequestPaths : ServeHTTP(l, path)

Spec == Init /\ [][Next]_vars

\* The Go scheduler runs every goroutine that can run: main goes on until it
\* blocks or ends, and a listener goroutine goes on until it blocks in
\* ListenAndServe. Whether ListenAndServe ever returns, and whether a request
\* ever arrives, is up to the environment.
FairSpec ==
    /\ Spec
    /\ WF_vars(Main)
    /\ \A l \in Listeners : WF_vars(ListenInfo(l))
    /\ \A l \in Listeners : WF_vars(FatalLog(l))
    /\ \A l \in Listeners : WF_vars(FatalExit(l))

----------------------------------------------------------------------------
\* Helpers of the properties.

\* Build step `step` has been invoked.
Invoked(step) == \E i \in DOMAIN calls : calls[i].step = step

\* Both path flags are non-empty.
BothProvided == certFile # "" /\ keyFile # ""

\* Some listener goroutine has been launched.
AnyLaunched == \E l \in Listeners : launches[l] > 0

\* ListenAndServe(TLS) of listener l has returned its error.
Failed(l) == listener[l] \in {"returned", "fatal"}

----------------------------------------------------------------------------
\* C1: every handle passed to a build step (registrar, key ring or any other
\* constructor of main) was produced by a strictly earlier step: no step is
\* invoked while one of its argument handles is still unset.
C1_DependencyOrder == \A i \in DOMAIN calls : calls[i].unset = {}

\* The last registrar, which takes six handles, has been invoked.
C1_Witness ==
    /\ Invoked("SetupSyncAPIComponent")
    /\ Invoked("CreateKeyRing")

\* C2: whenever a listener has been launched, every registrar has returned,
\* the CORS-wrapped API mux is installed for "/" and, if metrics are enabled,
\* the /metrics route is installed.
C2_SurfaceBeforeListeners ==
    AnyLaunched =>
       /\ \A r \in Registrars : Invoked(r)
       /\ \A r \in Registrars : \E i \in DOMAIN apiMux : apiMux[i] = r
       /\ \E i \in DOMAIN defaultMux :
             defaultMux[i] = [pattern |-> RootPattern, handler |-> HttpHandler]
       /\ metricsEnabled =>
             \E i \in DOMAIN defaultMux : defaultMux[i].pattern = MetricsPattern

\* Both listeners launched with metrics enabled.
C2_Witness ==
    /\ launches["http"] = 1
    /\ launches["https"] = 1
    /\ metricsEnabled

\* C3 as stated, for the runs whose shared stores all connect: in a finished
\* run the TLS listener was launched if and only if both the certificate and
\* the key path are non-empty.
C3_Original ==
    procState = "exited" /\ failedStores \cap BaseStores = {} =>
       (launches["https"] > 0 <=> BothProvided)

\* C3 as amended: the TLS listener is launched only if both the certificate
\* and the key path are non-empty, and it has been launched exactly once as
\* soon as main has passed lines 102-112 with both of them non-empty.
C3_TLSOnlyWithCertAndKey ==
    /\ launches["https"] > 0 => BothProvided
    /\ listener["https"] # "none" => BothProvided
    /\ Past("GoListenAndServeTLS") =>
          (launches["https"] = 1 <=> BothProvided)
    /\ launches["https"] <= 1

\* The TLS listener is serving.
C3_Witness ==
    /\ launches["https"] = 1
    /\ listener["https"] = "serving"
    /\ BothProvided

\* The invariant part of C4.
C4_Once ==
    /\ launches["http"] <= 1
    /\ served # << >> => launches["http"] = 1
    /\ Past("GoListenAndServe") => launches["http"] = 1
    /\ listener["http"] # "none" => launches["http"] = 1

\* C4: the plaintext listener is started exactly once and before any request
\* is served, and in a run without a store connection failure it is started.
C4_PlaintextOnce ==
    /\ []C4_Once
    /\ <>(launches["http"] = 1 \/ failedStores # {})

\* A request was served through the TLS listener, with no store failure.
C4_Witness ==
    /\ failedStores = {}
    /\ launches["http"] = 1
    /\ \E i \in DOMAIN served : served[i].via = "https"

\* C5: once the public rooms store has failed to connect, no listener is
\* ever launched and no request served; main stops at lines 76-78.
C5_PublicRoomsFailure ==
    "publicRoomsDB" \in failedStores =>
       /\ \A l \in Listeners : launches[l] = 0 /\ listener[l] = "none"
       /\ served = << >>
       /\ ~Past("IfErrPanicf")
       /\ ~Invoked("SetupPublicRoomsAPIComponent")

\* The process has ended after the public rooms store failed.
C5_Witness ==
    /\ "publicRoomsDB" \in failedStores
    /\ procState = "exited"
    /\ exit = "panic"

\* C6 as stated: no request is served by one listener in a state where the
\* other listener has failed.
C6_Original == \A i \in DOMAIN served : served[i].peer \notin {"returned", "fatal"}

\* C6 as amended: a listener whose ListenAndServe has returned is never
\* started again, its failure always ends the process, and once the process
\* has ended no listener does anything; until then the other listener may
\* still serve.
C6_FailFast ==
    /\ [][\A l \in Listeners : Failed(l) => Failed(l)']_vars
    /\ [][\A l \in Listeners : launches'[l] > launches[l] => launches[l] = 0]_vars
    /\ \A l \in Listeners : Failed(l) ~> (procState = "exited" /\ exit = "fatal")
    /\ [][procState # "exited"]_vars

\* The plaintext listener failed and ended the process while the TLS listener
\* was serving.
C6_Witness ==
    /\ listener["http"] = "fatal"
    /\ listener["https"] = "serving"
    /\ procState = "exited"

\* C7: once a store of the shared infrastructure has failed to connect, the
\* process has ended: the failing call is the last step of main, no registrar
\* was invoked, no route registered and no listener started.
C7_BaseStoreFailure ==
    failedStores \cap BaseStores # {} =>
       /\ procState = "exited"
       /\ Cardinality(failedStores) = 1
       /\ calls[Len(calls)].step \in
             {"CreateAccountsDB", "CreateDeviceDB", "CreateKeyDB"}
       /\ \A r \in Registrars : ~Invoked(r)
       /\ apiMux = << >>
       /\ defaultMux = << >>
       /\ ~AnyLaunched

\* The key store failed after the two other stores were created.
C7_Witness ==
    /\ "keyDB" \in failedStores
    /\ {"accountDB", "deviceDB"} \subseteq handles

\* No store and no listener has failed.
NoFailure == failedStores = {} /\ \A l \in Listeners : ~Failed(l)

\* C8: without a store or listener failure the process never ends and main
\* never returns, and at select {} main does nothing more.
C8_NeverReturns ==
    /\ [](NoFailure => procState = "running" /\ exit = "none" /\ ~MainReturned)
    /\ [][Past("GoListenAndServeTLS") => UNCHANGED mainVars]_vars

\* main blocks in select {} while both listeners serve.
C8_Witness ==
    /\ At("Select")
    /\ NoFailure
    /\ \A l \in Listeners : listener[l] = "serving"
    /\ Len(served) = MaxServed

\* The handler line 82-89 mean a path to have.
Expected(path) ==
    IF metricsEnabled /\ path = MetricsPath
       THEN [wrap |-> "BasicAuth", inner |-> "promhttp"]
       ELSE [wrap |-> "CORS", inner |-> "APIMux"]

\* C9: in the served surface /metrics is present if and only if metrics are
\* enabled; it is then wrapped in basic auth and not in CORS, and every other
\* path goes through the CORS wrapper.
C9_MetricsRoute ==
    /\ Past("HandleRoot") =>
          /\ (\E i \in DOMAIN defaultMux : defaultMux[i].pattern = MetricsPattern)
                <=> metricsEnabled
          /\ \A path \in RequestPaths : Lookup(defaultMux, path) = Expected(path)
    /\ \A i \in DOMAIN served : served[i].handler = Expected(served[i].path)

\* /metrics was served behind basic auth and another path behind CORS.
C9_Witness ==
    /\ metricsEnabled
    /\ \E i \in DOMAIN served :
          served[i].path = MetricsPath /\ served[i].handler.wrap = "BasicAuth"
    /\ \E i \in DOMAIN served :
          served[i].path # MetricsPath /\ served[i].handler.wrap = "CORS"

\* C10: with the certificate or the key path empty, TLS is skipped silently:
\* no TLS listener exists and nothing about it is logged, the process ends
\* only on a store failure or a plaintext listener failure, the plaintext
\* listener is started, and what it serves is the full surface.
C10_LenientTLS ==
    ~BothProvided =>
       /\ launches["https"] = 0 /\ listener["https"] = "none"
       /\ \A i \in DOMAIN log : log[i][2] \notin {"https", "tls-config"}
       /\ procState = "exited" => failedStores # {} \/ listener["http"] = "fatal"
       /\ Past("GoListenAndServe") => launches["http"] = 1
       /\ \A i \in DOMAIN served :
             /\ served[i].via = "http"
             /\ served[i].handler = Expected(served[i].path)
             /\ \A r \in Registrars :
                   \E j \in DOMAIN served[i].routes : served[i].routes[j] = r

\* Only the certificate is given; main blocks in select {} and the plaintext
\* listener has served.
C10_Witness ==
    /\ certFile # ""
    /\ keyFile = ""
    /\ At("Select")
    /\ served # << >>

----------------------------------------------------------------------------
\* The plaintext listener has not reached ListenAndServe's accept loop.
NotYetRunning(l) == listener[l] \in {"none", "started", "binding"}

\* C11 as stated: the TLS listener is never bound and serving in a state
\* where the plaintext listener has not yet reached running.
C11_Original == listener["https"] = "serving" => ~NotYetRunning("http")

\* C11 as amended: the TLS listener goroutine exists only after the plaintext
\* listener goroutine has been launched; which of the two is bound and serving
\* first is not ordered.
C11_LaunchOrder ==
    /\ launches["https"] > 0 => launches["http"] = 1
    /\ listener["https"] # "none" => listener["http"] # "none"
    /\ \A i \in DOMAIN served : launches["http"] = 1

\* The TLS listener serves while the plaintext goroutine has not run yet.
C11_Witness ==
    /\ listener["https"] = "serving"
    /\ listener["http"] = "started"

\* C12: once a listener has been launched the registered routes never change,
\* and the same path resolves to the same handler over the same routes on
\* whichever listener serves it.
C12_SameSurface ==
    /\ [][AnyLaunched => UNCHANGED <<apiMux, defaultMux>>]_vars
    /\ [](\A i, j \in DOMAIN served :
             served[i].path = served[j].path =>
                /\ served[i].handler = served[j].handler
                /\ served[i].routes = served[j].routes)
    /\ [](\A i \in DOMAIN served :
             /\ served[i].handler = Lookup(defaultMux, served[i].path)
             /\ served[i].routes = apiMux)

\* The same path was served once by each listener.
C12_Witness ==
    \E i, j \in DOMAIN served :
       /\ served[i].via = "http"
       /\ served[j].via = "https"
       /\ served[i].path = served[j].path

\* The order of the registrars the build sequence is declared to follow.
DeclaredOrder ==
    << "SetupRoomServerComponent", "SetupEDUServerComponent",
       "SetupAppServiceAPIComponent", "SetupFederationSenderComponent",
       "SetupClientAPIComponent", "SetupFederationAPIComponent",
       "SetupMediaAPIComponent", "SetupPublicRoomsAPIComponent",
       "SetupSyncAPIComponent" >>

\* A recorded call is the call of a registrar.
IsRegistrarCall(c) == c.step \in Registrars

\* C13: the registrars are invoked one after the other in the declared
\* order, no build step is invoked twice, and no listener goroutine exists
\* before main has executed its first go statement.
C13_SequentialBuild ==
    LET rc == SelectSeq(calls, IsRegistrarCall)
    IN  /\ Len(rc) <= Len(DeclaredOrder)
        /\ \A i \in DOMAIN rc : rc[i].step = DeclaredOrder[i]
        /\ \A i, j \in DOMAIN calls : i # j => calls[i].step # calls[j].step
        /\ ~Past("GoListenAndServe") =>
              \A l \in Listeners : listener[l] = "none" /\ launches[l] = 0
        /\ ~Past("GoListenAndServe") => served = << >>

\* All nine registrars have run and no listener exists yet.
C13_Witness ==
    /\ Invoked("SetupSyncAPIComponent")
    /\ At("GoListenAndServe")

EarlyRegistrars ==
    Registrars \ {"SetupPublicRoomsAPIComponent", "SetupSyncAPIComponent"}

\* Entry e has been written to the log.
InLog(e) == \E i \in DOMAIN log : log[i] = e

\* C15: when the public rooms store fails to connect, the public rooms and
\* sync registrars are never invoked, the earlier registrars have run and
\* registered their routes, and the failure is logged as soon as main leaves
\* its normal flow.
C15_ReportedBeforeRegistration ==
    "publicRoomsDB" \in failedStores =>
       /\ ~Invoked("SetupPublicRoomsAPIComponent")
       /\ ~Invoked("SetupSyncAPIComponent")
       /\ \A r \in EarlyRegistrars :
             Invoked(r) /\ \E i \in DOMAIN apiMux : apiMux[i] = r
       /\ \A i \in DOMAIN apiMux : apiMux[i] \in EarlyRegistrars
       /\ procState # "running" => InLog(<<"panic", "publicRoomsDB">>)
       /\ procState = "running" => At("IfErrPanicf")

\* The failure is logged and main is unwinding.
C15_Witness ==
    /\ "publicRoomsDB" \in failedStores
    /\ procState = "panicking"
    /\ InLog(<<"panic", "publicRoomsDB">>)

CauseLogged ==
    \/ procState = "panicking" /\ InLog(<<"panic", "publicRoomsDB">>)
    \/ \E l \in Listeners : listener[l] = "fatal" /\ InLog(<<"fatal", l>>)

\* C17: the process ends only with its cause in the log, and on the public
\* rooms store failure and on a listener failure the cause was logged in an
\* earlier step than the one that ends the process.
C17_LoggedBeforeExit ==
    /\ [](procState = "exited" =>
             \/ exit = "panic" /\ InLog(<<"panic", "publicRoomsDB">>)
             \/ exit = "fatal" /\
                   \E c \in Listeners \cup BaseStores : InLog(<<"fatal", c>>))
    /\ [][(procState # "exited" /\ procState' = "exited"
             /\ failedStores' \cap BaseStores = {}) => CauseLogged]_vars

\* The TLS listener's failure was logged and has ended the process.
C17_Witness ==
    /\ procState = "exited"
    /\ exit = "fatal"
    /\ listener["https"] = "fatal"
    /\ listener["http"] # "fatal"

\* C18: no instance created by cache.New() or transactions.New() is handed
\* to more than one registrar; the application service and the client API
\* each get a transactions cache of their own.
C18_DistinctCaches ==
    /\ \A i, j \in DOMAIN calls :
          i # j => calls[i].fresh \cap calls[j].fresh = {}
    /\ \A i \in DOMAIN calls :
          calls[i].step \in {"SetupAppServiceAPIComponent",
                             "SetupClientAPIComponent"} =>
             \E c \in calls[i].fresh : c.kind = "transactions"
    /\ \A i \in DOMAIN calls :
          calls[i].step = "SetupEDUServerComponent" =>
             \E c \in calls[i].fresh : c.kind = "cache"

\* The EDU server, the application service and the client API have been set
\* up.
C18_Witness ==
    /\ Invoked("SetupEDUServerComponent")
    /\ Invoked("SetupAppServiceAPIComponent")
    /\ Invoked("SetupClientAPIComponent")
====
